---- MODULE Spec2Model ----
(***************************************************************************)
(* A model of rio: the '/'-separated path type and its double-ended        *)
(* component iterator (src/src/path.rs), the derived filesystem predicates *)
(* (src/src/fs.rs) and the native backend (src/src/native.rs).             *)
(*                                                                         *)
(* Strings are sequences of one-character strings.  Cursors are 0-based as *)
(* in the source, so the source's path[k] is path[k + 1] here.             *)
(***************************************************************************)
EXTENDS Integers, Sequences, FiniteSets, TLC

VARIABLES
    path,   \* Components.path: the bytes the iterator borrows
    i,      \* Components.i: forward cursor
    j,      \* Components.j: backward cursor
    fault,  \* TRUE once an index outside the slice was read or j - 1 underflowed
    fwd,    \* the components next() has yielded, in order
    bwd,    \* the components next_back() has yielded, in order
    nF,     \* number of next() calls made
    nB,     \* number of next_back() calls made
    inner,  \* PathBuf.inner
    vp,     \* the virtual path the backend is exercised with
    root,   \* Native.inner: the real directory the backend is rooted at
    disk,   \* the real file tree: location |-> node
    handles,\* the fs::File values create() and append() have returned
    rd,     \* the live ReadDir value: the rest of the underlying listing
    listing,\* the whole underlying listing of the last read_dir()
    listed, \* the QPaths the live ReadDir has yielded, in order
    stale,  \* files written, since their last create(), through another handle
    call,   \* the last operation called, with its arguments and entry state
    ret     \* what the last operation returned

vars == <<path, i, j, fault, fwd, bwd, nF, nB, inner,
          vp, root, disk, handles, rd, listing, listed, stale, call, ret>>

(***************************************************************************)
(* Bounds.                                                                 *)
(***************************************************************************)
MaxLen == 6
MaxCalls == 5
MaxBuf == 4
MaxSeg == 2
MaxVLen == 3
MaxRWLen == 2
MaxHandles == 2
MaxWrites == 2

Sep == "/"
Alphabet == {Sep, "a", "b"}

RECURSIVE StringsOver(_, _)
StringsOver(A, n) ==
    IF n = 0 THEN {<<>>}
    ELSE LET S == StringsOver(A, n - 1)
         IN  S \cup {Append(s, ch) : s \in {t \in S : Len(t) = n - 1}, ch \in A}

StringsUpTo(n) == StringsOver(Alphabet, n)

Strings == StringsUpTo(MaxLen)

\* Option<T>
None == <<>>
Some(x) == <<x>>

(***************************************************************************)
(* Components (path.rs).  An iterator value is a record                    *)
(* [path, i, j, fault]; the methods take it and return the updated value.  *)
(***************************************************************************)
components(p) == [path |-> p, i |-> 0, j |-> Len(p), fault |-> FALSE]

\* the slice bounds check of path[k]
InBounds(c, k) == 0 <= k /\ k < Len(c.path)

RECURSIVE trim_left(_)
trim_left(c) ==
    IF c.fault \/ ~(c.i < c.j) THEN c
    ELSE IF ~InBounds(c, c.i) THEN [c EXCEPT !.fault = TRUE]
    ELSE IF c.path[c.i + 1] = Sep THEN trim_left([c EXCEPT !.i = c.i + 1])
    ELSE c

\* trim_right with the guard `0 < j` in place of `i < j`
RECURSIVE trim_right_IgnoreFront(_)
trim_right_IgnoreFront(c) ==
    IF c.fault \/ ~(0 < c.j) THEN c
    ELSE IF ~InBounds(c, c.j - 1) THEN [c EXCEPT !.fault = TRUE]
    ELSE IF c.path[c.j] = Sep THEN trim_right_IgnoreFront([c EXCEPT !.j = c.j - 1])
    ELSE c

RECURSIVE trim_right(_)
trim_right(c) ==
    IF c.fault \/ ~(c.i < c.j) THEN c
    ELSE IF c.j = 0 \/ ~InBounds(c, c.j - 1) THEN [c EXCEPT !.fault = TRUE]
    ELSE IF c.path[c.j] = Sep THEN trim_right([c EXCEPT !.j = c.j - 1])
    ELSE c

\* the loop of next(): advance i over non-separator bytes
RECURSIVE eat_left(_)
eat_left(c) ==
    IF c.fault \/ ~(c.i < c.j) THEN c
    ELSE IF ~InBounds(c, c.i) THEN [c EXCEPT !.fault = TRUE]
    ELSE IF c.path[c.i + 1] # Sep THEN eat_left([c EXCEPT !.i = c.i + 1])
    ELSE c

\* eat_right without the `i < j` guard
RECURSIVE eat_right_NoGuard(_)
eat_right_NoGuard(c) ==
    IF c.fault THEN c
    ELSE IF c.j = 0 \/ ~InBounds(c, c.j - 1) THEN [c EXCEPT !.fault = TRUE]
    ELSE IF c.path[c.j] # Sep THEN eat_right_NoGuard([c EXCEPT !.j = c.j - 1])
    ELSE c

\* the loop of next_back(): retreat j over non-separator bytes
RECURSIVE eat_right(_)
eat_right(c) ==
    IF c.fault \/ ~(c.i < c.j) THEN c
    ELSE IF c.j = 0 \/ ~InBounds(c, c.j - 1) THEN [c EXCEPT !.fault = TRUE]
    ELSE IF c.path[c.j] # Sep THEN eat_right([c EXCEPT !.j = c.j - 1])
    ELSE c

\* &path[a..b]; a slice whose range is not inside the buffer panics
Slice(c, a, b) == SubSeq(c.path, a + 1, b)
SliceOK(c, a, b) == 0 <= a /\ a <= b /\ b <= Len(c.path)

\* slicing with i > j panics
Panic == <<"!">>
as_path(c) == IF SliceOK(c, c.i, c.j) THEN Slice(c, c.i, c.j) ELSE Panic

\* next() without the leading trim_left
next_NoSkip(c) ==
    LET start == c.i
        c2 == eat_left(c)
        end == c2.i
        c3 == trim_left(c2)
    IN  IF start = end
        THEN [c |-> c3, item |-> None]
        ELSE [c |-> c3, item |-> Some(Slice(c, start, end))]

\* next() without the trailing trim_left
next_NoTrailTrim(c) ==
    LET c1 == trim_left(c)
        start == c1.i
        c2 == eat_left(c1)
        end == c2.i
    IN  IF start = end
        THEN [c |-> c2, item |-> None]
        ELSE [c |-> c2, item |-> Some(Slice(c, start, end))]

next(c) ==
    LET c1 == trim_left(c)
        start == c1.i
        c2 == eat_left(c1)
        end == c2.i
        c3 == trim_left(c2)
    IN  IF start = end
        THEN [c |-> c3, item |-> None]
        ELSE [c |-> [c3 EXCEPT !.fault = c3.fault \/ ~SliceOK(c, start, end)],
              item |-> Some(Slice(c, start, end))]

next_back(c) ==
    LET end == trim_right(c).j
        c2 == eat_right(trim_right(c))
        start == c2.j
        c3 == trim_right(c2)
    IN  IF start = end
        THEN [c |-> c3, item |-> None]
        ELSE [c |-> [c3 EXCEPT !.fault = c3.fault \/ ~SliceOK(c, start, end)],
              item |-> Some(Slice(c, start, end))]

\* the iterator held in the state variables
Cur == [path |-> path, i |-> i, j |-> j, fault |-> fault]

(***************************************************************************)
(* Path / PathBuf (path.rs).                                               *)
(***************************************************************************)
\* parent() that reports an empty remainder as "no parent"
parent_EmptyIsNone(p) ==
    LET r == next_back(components(p))
    IN  IF r.item # None /\ as_path(r.c) # <<>> THEN Some(as_path(r.c)) ELSE None

parent(p) ==
    LET r == next_back(components(p))
    IN  IF r.item # None THEN Some(as_path(r.c)) ELSE None

file_name(p) == next_back(components(p)).item

\* what push appends to the buffer before the segment itself
push_sep(buf, seg) ==
    IF Len(buf) > 0 /\ buf[Len(buf)] = Sep THEN <<>>
    ELSE IF Len(seg) > 0 /\ seg[1] = Sep THEN <<>>
    ELSE <<Sep>>

push(buf, seg) == (buf \o push_sep(buf, seg)) \o seg

\* all components from the front, as `for part in path` collects them
RECURSIVE collect(_)
collect(c) ==
    LET r == next(c)
    IN  IF r.item = None THEN <<>> ELSE <<r.item[1]>> \o collect(r.c)

(***************************************************************************)
(* The host file system the backend passes its operations to.  A real path *)
(* (std::path::PathBuf) is the sequence of its names; a location is the    *)
(* sequence of names leading to a node from "/".                           *)
(***************************************************************************)
Ok(x) == <<"Ok", x>>
Err(k) == <<"Err", k>>
is_ok(r) == r[1] = "Ok"

Dot == <<".">>
DotDot == <<".", ".">>
\* a byte that is not valid UTF-8
BadByte == "x80"
Bytes == {"x", "y"}
\* the byte a write past the end of a file leaves in the gap
Zero == "0"

DirNode == [kind |-> "dir", data |-> <<>>]
FileNode(d) == [kind |-> "file", data |-> d]
SpecialNode == [kind |-> "special", data |-> <<>>]

IsPrefix(a, b) == Len(a) <= Len(b) /\ SubSeq(b, 1, Len(a)) = a
ParentLoc(loc) == IF loc = <<>> THEN <<>> ELSE SubSeq(loc, 1, Len(loc) - 1)
IsDirAt(dk, loc) == loc \in DOMAIN dk /\ dk[loc].kind = "dir"

\* path resolution: every name is looked up in the directory reached so
\* far; "." stays there and ".." goes to its parent
RECURSIVE Walk(_, _, _)
Walk(dk, loc, names) ==
    IF names = <<>> THEN [ok |-> TRUE, loc |-> loc]
    ELSE IF ~IsDirAt(dk, loc) THEN [ok |-> FALSE, loc |-> loc]
    ELSE Walk(dk,
              IF Head(names) = DotDot THEN ParentLoc(loc)
              ELSE IF Head(names) = Dot THEN loc
              ELSE Append(loc, Head(names)),
              Tail(names))

Resolve(dk, real) == Walk(dk, <<>>, real)

\* fs::metadata(real).ok()
Stat(dk, real) ==
    LET r == Resolve(dk, real)
    IN  IF r.ok /\ r.loc \in DOMAIN dk THEN Some(dk[r.loc]) ELSE None

\* fs::File::open(real) followed by read_to_end
fs_open_read(dk, real) ==
    LET n == Stat(dk, real)
    IN  IF n = None THEN Err("NotFound")
        ELSE IF n[1].kind = "file" THEN Ok(n[1].data)
        ELSE Err("Other")

\* whether fs::File::create(real) succeeds: the file is absent in an
\* existing directory, or is a regular file
CanCreate(dk, real) ==
    LET r == Resolve(dk, real)
    IN  r.ok /\ (r.loc \in DOMAIN dk => dk[r.loc].kind = "file")

\* whether OpenOptions .write(true).create(false).append(true) opens real
CanAppend(dk, real) ==
    LET n == Stat(dk, real)
    IN  n # None /\ n[1].kind = "file"

\* the disk with the node at loc set
PutNode(dk, loc, n) ==
    [l \in DOMAIN dk \cup {loc} |-> IF l = loc THEN n ELSE dk[l]]

\* fs::File::create that keeps the content of a file already there
fs_create_NoTruncate(dk, loc) ==
    IF loc \in DOMAIN dk THEN dk ELSE PutNode(dk, loc, FileNode(<<>>))

\* the effect of a successful fs::File::create: an empty file at loc
fs_create(dk, loc) == PutNode(dk, loc, FileNode(<<>>))

Children(dk, loc) ==
    {l \in DOMAIN dk : Len(l) = Len(loc) + 1 /\ IsPrefix(loc, l)}

\* the paths std::fs::ReadDir yields for real: real with a child's name
EntryPaths(dk, real) ==
    {Append(real, l[Len(l)]) : l \in Children(dk, Resolve(dk, real).loc)}

CanReadDir(dk, real) ==
    LET r == Resolve(dk, real)
    IN  r.ok /\ IsDirAt(dk, r.loc)

\* the orders a directory's entries can come in, each entry read or failing
Listings(paths) ==
    {s \in [1..Cardinality(paths) -> [ok : BOOLEAN, path : paths]] :
        \A a, b \in 1..Cardinality(paths) : a # b => s[a].path # s[b].path}

\* a write of byte b at offset pos
WriteAt(data, pos, b) ==
    IF pos < Len(data) THEN [data EXCEPT ![pos + 1] = b]
    ELSE (data \o [k \in 1..(pos - Len(data)) |-> Zero]) \o <<b>>

(***************************************************************************)
(* fs.rs: the derived predicates, given file_type's result.                *)
(***************************************************************************)
FileType_is_file(t) == t = "File"
FileType_is_dir(t) == t = "Dir"

qualified(b, p) == [path |-> p, parent |-> b]

exists(ft) == is_ok(ft)

\* is_file with unwrap_or(true)
is_file_DefaultTrue(ft) == IF is_ok(ft) THEN FileType_is_file(ft[2]) ELSE TRUE

is_file(ft) == IF is_ok(ft) THEN FileType_is_file(ft[2]) ELSE FALSE

is_dir(ft) == IF is_ok(ft) THEN FileType_is_dir(ft[2]) ELSE FALSE

(***************************************************************************)
(* native.rs                                                               *)
(***************************************************************************)
\* virtual path strings handed to the backend
VAlphabet == {Sep, ".", "a"}
VPaths == StringsOver(VAlphabet, MaxVLen)

\* root.clone(), then push(part) for every component
Native_path(rt, p) == rt \o collect(components(p))

relative_from(real, base) ==
    IF IsPrefix(base, real)
    THEN Some(SubSeq(real, Len(base) + 1, Len(real)))
    ELSE None

IsUtf8(name) == \A k \in 1..Len(name) : name[k] # BadByte

RECURSIVE JoinNames(_)
JoinNames(names) ==
    IF names = <<>> THEN <<>>
    ELSE IF Len(names) = 1 THEN names[1]
    ELSE (names[1] \o <<Sep>>) \o JoinNames(Tail(names))

\* Path::to_str
to_str(names) ==
    IF \A k \in 1..Len(names) : IsUtf8(names[k]) THEN Some(JoinNames(names)) ELSE None

unpath(rt, real) ==
    LET rel == relative_from(real, rt)
    IN  IF rel = None THEN None ELSE to_str(rel[1])

Native_file_type(rt, dk, p) ==
    LET n == Stat(dk, Native_path(rt, p))
    IN  IF n # None /\ n[1].kind = "file" THEN Ok("File")
        ELSE IF n # None /\ n[1].kind = "dir" THEN Ok("Dir")
        ELSE Err("NotFound")

\* ReadDir::next that stops at the first entry it cannot convert
RECURSIVE ReadDir_next_StopOnBad(_)
ReadDir_next_StopOnBad(it) ==
    IF it.iter = <<>> THEN [it |-> it, item |-> None]
    ELSE LET res == Head(it.iter)
             conv == IF res.ok THEN unpath(it.parent, res.path) ELSE None
             rest == [it EXCEPT !.iter = Tail(it.iter)]
         IN  IF conv # None
             THEN [it |-> rest, item |-> Some(qualified(it.parent, conv[1]))]
             ELSE [it |-> rest, item |-> None]

RECURSIVE ReadDir_next(_)
ReadDir_next(it) ==
    IF it.iter = <<>> THEN [it |-> it, item |-> None]
    ELSE LET res == Head(it.iter)
             conv == IF res.ok THEN unpath(it.parent, res.path) ELSE None
             rest == [it EXCEPT !.iter = Tail(it.iter)]
         IN  IF conv # None
             THEN [it |-> rest, item |-> Some(qualified(it.parent, conv[1]))]
             ELSE ReadDir_next(rest)

(***************************************************************************)
(* The iterator specification: a fresh components() iterator over any path *)
(* string, driven by next() and next_back() in any order.                  *)
(***************************************************************************)
NoCall == [op |-> "new"]

iterVars == <<path, i, j, fault, fwd, bwd, nF, nB>>
nativeVars == <<vp, root, disk, handles, rd, listing, listed, stale>>

\* no iterator is in use
IterIdle ==
    /\ path = <<>>
    /\ i = 0
    /\ j = 0
    /\ fault = FALSE
    /\ fwd = <<>>
    /\ bwd = <<>>
    /\ nF = 0
    /\ nB = 0

\* no backend is in use
NativeIdle ==
    /\ vp = <<>>
    /\ root = <<>>
    /\ disk = <<>>
    /\ handles = <<>>
    /\ rd = None
    /\ listing = <<>>
    /\ listed = <<>>
    /\ stale = {}

Init ==
    /\ NativeIdle
    /\ path \in Strings
    /\ i = 0
    /\ j = Len(path)
    /\ fault = FALSE
    /\ fwd = <<>>
    /\ bwd = <<>>
    /\ nF = 0
    /\ nB = 0
    /\ inner = <<>>
    /\ call = NoCall
    /\ ret = None

CallNext ==
    /\ nF + nB < MaxCalls
    /\ LET r == next(Cur)
       IN  /\ i' = r.c.i
           /\ j' = r.c.j
           /\ fault' = r.c.fault
           /\ ret' = r.item
           /\ fwd' = fwd \o r.item
    /\ nF' = nF + 1
    /\ call' = [op |-> "next", i |-> i, j |-> j]
    /\ UNCHANGED <<path, bwd, nB, inner, nativeVars>>

CallNextBack ==
    /\ nF + nB < MaxCalls
    /\ LET r == next_back(Cur)
       IN  /\ i' = r.c.i
           /\ j' = r.c.j
           /\ fault' = r.c.fault
           /\ ret' = r.item
           /\ bwd' = bwd \o r.item
    /\ nB' = nB + 1
    /\ call' = [op |-> "next_back", i |-> i, j |-> j]
    /\ UNCHANGED <<path, fwd, nF, inner, nativeVars>>

Next == CallNext \/ CallNextBack

Spec == Init /\ [][Next]_vars

(***************************************************************************)
(* The path specification: a PathBuf built from any string, grown by       *)
(* push() and queried through parent() and file_name().                    *)
(***************************************************************************)
InitPath ==
    /\ IterIdle
    /\ NativeIdle
    /\ inner \in StringsUpTo(MaxBuf)
    /\ call = NoCall
    /\ ret = None

CallPush ==
    \E seg \in StringsUpTo(MaxSeg) :
        /\ Len(inner) <= MaxBuf
        /\ inner' = push(inner, seg)
        /\ call' = [op |-> "push", old |-> inner, seg |-> seg]
        /\ ret' = None
        /\ UNCHANGED <<iterVars, nativeVars>>

CallParent ==
    /\ ret' = parent(inner)
    /\ call' = [op |-> "parent", p |-> inner]
    /\ UNCHANGED <<inner, iterVars, nativeVars>>

CallFileName ==
    /\ ret' = file_name(inner)
    /\ call' = [op |-> "file_name", p |-> inner]
    /\ UNCHANGED <<inner, iterVars, nativeVars>>

NextPath == CallPush \/ CallParent \/ CallFileName

SpecPath == InitPath /\ [][NextPath]_vars

(***************************************************************************)
(* The backend specifications: a Native rooted at /r over a small real     *)
(* tree.  /a is a file beside the root.                                    *)
(***************************************************************************)
RootDir == << <<"r">> >>
Outside == << <<"a">> >>
RA == Append(RootDir, <<"a">>)
RAA == Append(RA, <<"a">>)
RHidden == Append(RootDir, <<".", "a">>)
RBad == Append(RootDir, <<BadByte>>)

BaseDisk ==
    [l \in {<<>>, RootDir, Outside} |->
        IF l = Outside THEN FileNode(<<"x">>) ELSE DirNode]

WithA(dk, kind) ==
    IF kind = "file" THEN PutNode(dk, RA, FileNode(<<"x">>))
    ELSE IF kind = "dir" THEN PutNode(PutNode(dk, RA, DirNode), RAA, FileNode(<<"y">>))
    ELSE IF kind = "special" THEN PutNode(dk, RA, SpecialNode)
    ELSE dk

WithFile(dk, loc, present) == IF present THEN PutNode(dk, loc, FileNode(<<"y">>)) ELSE dk

InitDisks ==
    {WithFile(WithFile(WithA(BaseDisk, kind), RBad, bad), RHidden, TRUE) :
        kind \in {"none", "file", "dir", "special"}, bad \in BOOLEAN}

\* a backend over one of the trees disks, exercised with one of paths
NativeNew(disks, paths) ==
    /\ IterIdle
    /\ inner = <<>>
    /\ vp \in paths
    /\ root = RootDir
    /\ disk \in disks
    /\ handles = <<>>
    /\ rd = None
    /\ listing = <<>>
    /\ listed = <<>>
    /\ stale = {}
    /\ call = NoCall
    /\ ret = None

InitNative == NativeNew(InitDisks, VPaths)

\* the trees and paths of the write/read-back specification
RWDisks == {WithFile(WithA(BaseDisk, kind), RHidden, TRUE) : kind \in {"none", "file"}}
RWPaths == StringsOver(VAlphabet, MaxRWLen)
InitRW == NativeNew(RWDisks, RWPaths)

\* the call, the real path it hands to the host and where that resolves
CallRec(op, p) ==
    [op |-> op, p |-> p, real |-> Native_path(root, p),
     loc |-> Resolve(disk, Native_path(root, p))]

NewHandle(loc, mode) ==
    [loc |-> loc, mode |-> mode, pos |-> 0, written |-> <<>>, open |-> TRUE]

\* the handle the last successful create() of loc returned, 0 if none
LatestCreate(hs, loc) ==
    LET ks == {k \in 1..Len(hs) : hs[k].loc = loc /\ hs[k].mode = "w"}
    IN  IF ks = {} THEN 0 ELSE CHOOSE k \in ks : \A m \in ks : m <= k

\* the number of bytes written through the handles so far
RECURSIVE Written(_)
Written(hs) == IF hs = <<>> THEN 0 ELSE Len(Head(hs).written) + Written(Tail(hs))

FileTypeCall ==
    LET p == vp IN
        /\ ret' = Native_file_type(root, disk, p)
        /\ call' = CallRec("file_type", p)
        /\ UNCHANGED <<iterVars, inner, nativeVars>>

ExistsCall ==
    LET p == vp IN
        /\ ret' = exists(Native_file_type(root, disk, p))
        /\ call' = CallRec("exists", p)
        /\ UNCHANGED <<iterVars, inner, nativeVars>>

IsFileCall ==
    LET p == vp IN
        /\ ret' = is_file(Native_file_type(root, disk, p))
        /\ call' = CallRec("is_file", p)
        /\ UNCHANGED <<iterVars, inner, nativeVars>>

IsDirCall ==
    LET p == vp IN
        /\ ret' = is_dir(Native_file_type(root, disk, p))
        /\ call' = CallRec("is_dir", p)
        /\ UNCHANGED <<iterVars, inner, nativeVars>>

\* open(p) and read_to_end on the file it returns
OpenRead ==
    LET p == vp IN
        /\ ret' = fs_open_read(disk, Native_path(root, p))
        /\ call' = CallRec("open", p)
        /\ UNCHANGED <<iterVars, inner, nativeVars>>

Create ==
    LET p == vp IN
        /\ Len(handles) < MaxHandles
        /\ call' = CallRec("create", p)
        /\ LET real == Native_path(root, p)
               loc == Resolve(disk, real).loc
           IN  IF CanCreate(disk, real)
               THEN /\ disk' = fs_create(disk, loc)
                    /\ handles' = Append(handles, NewHandle(loc, "w"))
                    /\ stale' = stale \ {loc}
                    /\ ret' = Ok(Len(handles) + 1)
               ELSE /\ ret' = Err("Io")
                    /\ UNCHANGED <<disk, handles, stale>>
        /\ UNCHANGED <<iterVars, inner, vp, root, rd, listing, listed>>

AppendOpen ==
    LET p == vp IN
        /\ Len(handles) < MaxHandles
        /\ call' = CallRec("append", p)
        /\ LET real == Native_path(root, p)
               loc == Resolve(disk, real).loc
           IN  IF CanAppend(disk, real)
               THEN /\ handles' = Append(handles, NewHandle(loc, "a"))
                    /\ ret' = Ok(Len(handles) + 1)
               ELSE /\ ret' = Err("Io")
                    /\ UNCHANGED handles
        /\ UNCHANGED <<iterVars, inner, vp, root, disk, rd, listing, listed, stale>>

\* io::Write::write of one byte through an open handle
Write ==
    \E k \in 1..Len(handles), b \in Bytes :
        /\ handles[k].open
        /\ Written(handles) < MaxWrites
        /\ LET h == handles[k]
               old == disk[h.loc].data
               new == IF h.mode = "a" THEN Append(old, b) ELSE WriteAt(old, h.pos, b)
           IN  /\ disk' = PutNode(disk, h.loc, FileNode(new))
               /\ handles' = [handles EXCEPT ![k].pos = h.pos + 1,
                                             ![k].written = Append(h.written, b)]
               /\ stale' = IF k = LatestCreate(handles, h.loc) THEN stale
                           ELSE stale \cup {h.loc}
        /\ call' = [op |-> "write", h |-> k]
        /\ ret' = Ok(1)
        /\ UNCHANGED <<iterVars, inner, vp, root, rd, listing, listed>>

\* the handle goes out of scope
Close ==
    \E k \in 1..Len(handles) :
        /\ handles[k].open
        /\ handles' = [handles EXCEPT ![k].open = FALSE]
        /\ call' = [op |-> "close", h |-> k]
        /\ ret' = None
        /\ UNCHANGED <<iterVars, inner, vp, root, disk, rd, listing, listed, stale>>

ReadDir ==
    LET p == vp IN
        /\ call' = CallRec("read_dir", p)
        /\ LET real == Native_path(root, p)
           IN  IF CanReadDir(disk, real)
               THEN \E s \in Listings(EntryPaths(disk, real)) :
                       /\ rd' = Some([iter |-> s, parent |-> root])
                       /\ listing' = s
                       /\ listed' = <<>>
                       /\ ret' = Ok("ReadDir")
               ELSE /\ ret' = Err("Io")
                    /\ UNCHANGED <<rd, listing, listed>>
        /\ UNCHANGED <<iterVars, inner, vp, root, disk, handles, stale>>

ReadDirNext ==
    /\ rd # None
    /\ LET r == ReadDir_next(rd[1])
       IN  /\ rd' = Some(r.it)
           /\ ret' = r.item
           /\ listed' = listed \o r.item
    /\ call' = [op |-> "ReadDir::next", left |-> Len(rd[1].iter)]
    /\ UNCHANGED <<iterVars, inner, vp, root, disk, handles, listing, stale>>

\* path resolution and the read predicates
NextNative ==
    \/ FileTypeCall
    \/ ExistsCall
    \/ IsFileCall
    \/ IsDirCall
    \/ OpenRead
    \/ Create
    \/ AppendOpen
    \/ ReadDir

SpecNative == InitNative /\ [][NextNative]_vars

\* directory listing
NextDir == ReadDir \/ ReadDirNext

SpecDir == InitNative /\ [][NextDir]_vars

\* writing and reading back
NextRW == Create \/ Write \/ Close \/ OpenRead

SpecRW == InitRW /\ [][NextRW]_vars

(***************************************************************************)
(* Reference notions the properties are stated against.                    *)
(***************************************************************************)
\* positions where a maximal run of non-separator bytes starts
RunStarts(s) == {a \in 1..Len(s) : s[a] # Sep /\ (a = 1 \/ s[a - 1] = Sep)}
RunEnd(s, a) ==
    CHOOSE b \in a..Len(s) :
        /\ \A k \in a..b : s[k] # Sep
        /\ (b = Len(s) \/ s[b + 1] = Sep)
\* the maximal runs of non-separator bytes, left to right
Split(s) ==
    [k \in 1..Cardinality(RunStarts(s)) |->
        LET a == CHOOSE x \in RunStarts(s) :
                    Cardinality({y \in RunStarts(s) : y < x}) = k - 1
        IN  SubSeq(s, a, RunEnd(s, a))]
NumComps(s) == Cardinality(RunStarts(s))

StartsWithSep(s) == Len(s) > 0 /\ s[1] = Sep
EndsWithSep(s) == Len(s) > 0 /\ s[Len(s)] = Sep

RECURSIVE Times(_, _, _)
\* n applications of the iterator method Op, starting from c
Times(Op(_), n, c) == IF n = 0 THEN c ELSE Times(Op, n - 1, Op(c).c)
\* k calls of next() followed by m calls of next_back() on a fresh iterator
FrontThenBack(p, k, m) ==
    LET F(c) == next(c)
        B(c) == next_back(c)
    IN  Times(B, m, Times(F, k, components(p)))

\* C1: whatever the interleaving of k next() and m next_back() calls on a
\* fresh iterator, with k + m at most the number of components, as_path()
\* is the remainder left by the k front calls followed by the m back calls.
C1_OrderIndependent ==
    nF + nB <= NumComps(path) =>
        as_path(Cur) = as_path(FrontThenBack(path, nF, nB))

\* a back call made before a front call, with a component left in the middle
C1_Witness ==
    /\ call.op = "next"
    /\ nB >= 1
    /\ nF + nB <= NumComps(path)
    /\ as_path(Cur) = <<"b">>

\* C2: calling next() until it returns None yields exactly the maximal runs
\* of non-'/' bytes, left to right; each is non-empty and holds no '/'.
C2_ForwardYieldsRuns ==
    nB = 0 =>
        /\ Len(fwd) <= NumComps(path)
        /\ fwd = SubSeq(Split(path), 1, Len(fwd))
        /\ \A k \in 1..Len(fwd) :
              Len(fwd[k]) > 0 /\ \A x \in 1..Len(fwd[k]) : fwd[k][x] # Sep
        /\ (call.op = "next" /\ ret = None) => fwd = Split(path)

\* next() ran to None over a path with leading, repeated and trailing '/'
C2_Witness ==
    /\ nB = 0
    /\ call.op = "next"
    /\ ret = None
    /\ path = <<Sep, "a", Sep, Sep, "b", Sep>>
    /\ fwd = << <<"a">>, <<"b">> >>

\* C3 as stated: after any calls (including none) the path as_path()
\* returns neither starts nor ends with '/'.
C3_Original ==
    ~StartsWithSep(as_path(Cur)) /\ ~EndsWithSep(as_path(Cur))

\* C3 amended: as_path() is the interval between the cursors, not trimmed;
\* it does not start with '/' once next() was called, does not end with '/'
\* once next_back() was called, and is the whole string before any call.
C3_Amended ==
    /\ as_path(Cur) = SubSeq(path, i + 1, j)
    /\ nF >= 1 => ~StartsWithSep(as_path(Cur))
    /\ nB >= 1 => ~EndsWithSep(as_path(Cur))
    /\ (nF = 0 /\ nB = 0) => as_path(Cur) = path

\* "/a/b/a" after two next_back() calls: the remainder is "/a"
C3_Witness ==
    /\ nF = 0
    /\ nB = 2
    /\ path = <<Sep, "a", Sep, "b", Sep, "a">>
    /\ as_path(Cur) = <<Sep, "a">>

\* C10: the cursors stay ordered inside the slice, no read is out of bounds
\* and j never underflows; a call made once the cursors have met returns
\* None and moves neither cursor.
C10_Cursors ==
    /\ 0 <= i /\ i <= j /\ j <= Len(path)
    /\ ~fault
    /\ (call.op \in {"next", "next_back"} /\ call.i = call.j) =>
          (ret = None /\ i = call.i /\ j = call.j)

\* a call in each direction was made after the cursors met inside a path
C10_Witness ==
    /\ call.op = "next_back"
    /\ call.i = call.j
    /\ call.i > 0 /\ call.i < Len(path)
    /\ nF >= 2

\* C4: parent() and file_name() are None exactly for a path with no
\* component; otherwise file_name() is the last component and parent() is
\* Some path holding the components but the last, the empty path when the
\* path has one component.
C4_ParentFileName ==
    /\ call.op = "parent" =>
          /\ (ret = None) <=> (NumComps(call.p) = 0)
          /\ ret # None =>
                Split(ret[1]) = SubSeq(Split(call.p), 1, NumComps(call.p) - 1)
          /\ NumComps(call.p) = 1 => ret = Some(<<>>)
    /\ call.op = "file_name" =>
          /\ (ret = None) <=> (NumComps(call.p) = 0)
          /\ ret # None => ret[1] = Split(call.p)[NumComps(call.p)]

\* parent() of a path with one component is Some(""), not None
C4_Witness ==
    /\ call.op = "parent"
    /\ NumComps(call.p) = 1
    /\ StartsWithSep(call.p)
    /\ ret = Some(<<>>)

\* the bytes push() put between the old content and the segment
Inserted(old, seg, new) == SubSeq(new, Len(old) + 1, Len(new) - Len(seg))
\* the separators at the join point: the old content's last byte, the
\* inserted bytes and the segment's first byte
JoinSeps(old, seg, new) ==
    (IF EndsWithSep(old) THEN 1 ELSE 0)
    + Len(Inserted(old, seg, new))
    + (IF StartsWithSep(seg) THEN 1 ELSE 0)

\* C5: push() leaves exactly one '/' between the old content and the
\* segment, and the result is at most old length + 1 + segment length long.
C5_PushOneSeparator ==
    call.op = "push" =>
        /\ inner = (call.old \o Inserted(call.old, call.seg, inner)) \o call.seg
        /\ JoinSeps(call.old, call.seg, inner) = 1
        /\ Len(inner) <= Len(call.old) + 1 + Len(call.seg)

\* the operations that hand a translated path to the host
PathOps == {"open", "file_type", "read_dir", "create", "append"}

\* C6: the real path of every operation is the root with the virtual
\* path's components joined on, and the location it resolves to is the
\* root or below it.
C6_ResolvesUnderRoot ==
    call.op \in PathOps =>
        /\ call.real = root \o Split(call.p)
        /\ call.loc.ok => IsPrefix(root, call.loc.loc)

\* the handle and location an open() reads back
OpenLoc == call.loc.loc
OpenLatest == LatestCreate(handles, OpenLoc)

\* C7 as stated: after any create/write/close operations, open and read to
\* the end yields the bytes written through the most recent successful
\* create of the file.
C7_Original ==
    (call.op = "open" /\ call.loc.ok /\ OpenLatest # 0) =>
        ret = Ok(handles[OpenLatest].written)

\* C7 amended: the same, provided no handle other than the one the most
\* recent create returned has written to the file since that create.
C7_Amended ==
    (call.op = "open" /\ call.loc.ok /\ OpenLatest # 0 /\ OpenLoc \notin stale) =>
        ret = Ok(handles[OpenLatest].written)

\* a file written through one create, created again, written and read back
C7_Witness ==
    /\ call.op = "open"
    /\ call.loc.ok
    /\ OpenLatest = 2
    /\ OpenLoc \notin stale
    /\ handles[1].loc = OpenLoc
    /\ handles[1].written = <<"x">>
    /\ ret = Ok(<<"y">>)

\* what the host has at the place the last call resolved
KindAt ==
    IF call.loc.ok /\ call.loc.loc \in DOMAIN disk
    THEN disk[call.loc.loc].kind
    ELSE "none"

\* C8: exists, is_file and is_dir return a boolean, never an error: exists
\* iff file_type succeeds, is_file iff it gives File, is_dir iff it gives
\* Dir; file_type fails with NotFound only, as for a path never created.
C8_Predicates ==
    /\ call.op = "file_type" =>
          /\ ret \in {Ok("File"), Ok("Dir"), Err("NotFound")}
          /\ ret = Ok("File") <=> KindAt = "file"
          /\ ret = Ok("Dir") <=> KindAt = "dir"
    /\ call.op = "exists" =>
          ret \in BOOLEAN /\ (ret <=> KindAt \in {"file", "dir"})
    /\ call.op = "is_file" =>
          ret \in BOOLEAN /\ (ret <=> KindAt = "file")
    /\ call.op = "is_dir" =>
          ret \in BOOLEAN /\ (ret <=> KindAt = "dir")

\* is_file() of a path that was never created is false
C8_Witness ==
    /\ call.op = "is_file"
    /\ KindAt = "none"
    /\ call.p = <<"a", "a">>
    /\ ret = FALSE

\* an entry of the underlying listing that has a root-relative virtual path
Translatable(e) ==
    /\ e.ok
    /\ IsPrefix(root, e.path)
    /\ \A k \in (Len(root) + 1)..Len(e.path) : IsUtf8(e.path[k])
\* the QPaths a part of the underlying listing is to give
Expected(es) ==
    LET f == SelectSeq(es, Translatable)
    IN  [k \in 1..Len(f) |->
            [path |-> JoinNames(SubSeq(f[k].path, Len(root) + 1, Len(f[k].path))),
             parent |-> root]]
\* the part of the underlying listing the live ReadDir has gone through
Consumed == SubSeq(listing, 1, Len(listing) - Len(rd[1].iter))

\* C9: read_dir fails exactly when the directory cannot be opened; the
\* iterator yields, once each and bound to this backend, the entries that
\* translate, skips the others and returns None only at the end.
C9_ReadDir ==
    /\ call.op = "read_dir" => (is_ok(ret) <=> KindAt = "dir")
    /\ rd # None =>
          /\ listed = Expected(Consumed)
          /\ \A k \in 1..Len(listed) :
                /\ listed[k].parent = root
                /\ \E e \in 1..Len(listing) :
                      listing[e].path = Native_path(root, listed[k].path)
          /\ \A a, b \in 1..Len(listed) : a # b => listed[a] # listed[b]
    /\ (call.op = "ReadDir::next" /\ ret = None) =>
          (rd[1].iter = <<>> /\ listed = Expected(listing))

\* an entry was yielded after another one had been skipped
C9_Witness ==
    /\ call.op = "ReadDir::next"
    /\ ret # None
    /\ Len(Consumed) = 3
    /\ Len(listed) = 1
    /\ \E k \in 1..2 : ~listing[k].ok
    /\ \E k \in 1..2 : listing[k].ok /\ ~Translatable(listing[k])

====
